---- MODULE Spec2Model ----
(***************************************************************************)
(* Model of git.py, the publish helper: main() drives a fixed sequence of  *)
(* git invocations (repository check, stage, staged query, commit, remote  *)
(* query, remote add, push).  The state is the position of main(), the     *)
(* parsed arguments, the exit status, the console/process log, and the     *)
(* part of the repository the commands read and write.                     *)
(***************************************************************************)
EXTENDS Integers, Sequences, FiniteSets, TLC

VARIABLES
    pc,        \* position of main(): Start, Stage, Query, Commit, Ensure,
               \* AddRemote, Push, End (returned) or Failed (sys.exit)
    argv,      \* the options given on the command line
    args,      \* the namespace parse_args() returned
    status,    \* the exit status of the process, -1 while it runs
    log,       \* echoes, executed commands and messages, in order
    inRepo,    \* the working directory is inside a work tree
    remotes,   \* the repository's remotes: name -> URL
    modified,  \* files changed in the work tree and not staged
    staged     \* files staged in the index

vars == <<pc, argv, args, status, log, inRepo, remotes, modified, staged>>

(* ---------------------------- bounds ----------------------------------- *)

\* at most this many files are modified when the run starts
MaxModified == 2

(* ------------------------ module constants ----------------------------- *)

REPO_OWNER == "Ravi-Chandra24"

REPO_NAME == "Ask-her-Out"

FILES == <<"index.html", "ask_her_out.html", "schedule.html", "git.py">>

COMMIT_MSG == "Prepare site for GitHub Pages"

(* --------------------------- environment ------------------------------- *)

\* an option that was not given on the command line
NotGiven == "<not given>"

\* files that may be modified in the work tree, in the order git lists
\* them: two of FILES and one other
WorkFiles == <<"index.html", "notes.txt", "schedule.html">>

\* non-zero exit statuses a git command may end with
FailCodes == {1, 128}

\* remotes the repository may already have
OtherUrl == "https://example.org/site.git"

RemoteNames == {"origin", "upstream"}

Range(s) == {s[i] : i \in 1..Len(s)}

\* the members of set S in the order of sequence order
RECURSIVE ListOf(_, _)
ListOf(S, order) ==
    IF order = <<>> THEN <<>>
    ELSE (IF Head(order) \in S THEN <<Head(order)>> ELSE <<>>)
         \o ListOf(S, Tail(order))

(* ----------------------------- the log --------------------------------- *)

\* "$ cmd" printed by run()
Echo(cmd) == [kind |-> "echo", via |-> "run", cmd |-> cmd, rc |-> 0, out |-> <<>>]

\* an external command that was executed, with its exit status and output
Exec(via, cmd, rc, out) == [kind |-> "exec", via |-> via, cmd |-> cmd, rc |-> rc, out |-> out]

\* a message printed by the script
Message(text) == [kind |-> "print", via |-> "script", cmd |-> <<text>>, rc |-> 0, out |-> <<>>]

(* ------------------------------ run() ---------------------------------- *)

RunEchoMissing(cmd) == <<>>

\* line 26: the command is echoed before it is executed
RunEcho(cmd) == <<Echo(cmd)>>

RunExitsNever(check, rc) == FALSE

\* lines 33-42: a CalledProcessError ends the process when check is set
RunExits(check, rc) == rc # 0 /\ check

RunExitCodeOne(rc) == 1

\* line 41: sys.exit(e.returncode)
RunExitCode(rc) == rc

\* what run() appends to the log: echo, execution, failure message
RunLog(cmd, rc, out) ==
    RunEcho(cmd) \o <<Exec("run", cmd, rc, out)>>
    \o (IF rc # 0 THEN <<Message("Command failed:")>> ELSE <<>>)

AfterFailureRetry(here) == here

\* line 41: sys.exit() ends the process; nothing is retried
AfterFailure(here) == "Failed"

\* run(cmd) whose command failed with check set: lines 33-41
Fail(cmd, rc, out) ==
    /\ log' = log \o RunLog(cmd, rc, out)
    /\ pc' = AfterFailure(pc)
    /\ status' = RunExitCode(rc)

\* run(cmd) that returns to main(), which goes on at next after printing msgs
Return(cmd, rc, out, msgs, next) ==
    /\ log' = log \o RunLog(cmd, rc, out) \o msgs
    /\ pc' = next
    /\ status' = status

(* --------------------------- parse_args() ------------------------------ *)

Default(v, d) == IF v = NotGiven THEN d ELSE v

parse_args(a) ==
    [message |-> Default(a.message, COMMIT_MSG),
     all     |-> a.all,
     no_push |-> a.no_push,
     remote  |-> Default(a.remote, "origin"),
     branch  |-> Default(a.branch, "main"),
     dry_run |-> a.dry_run]

Argvs ==
    [message : {NotGiven, "Fix typo"},
     all     : BOOLEAN,
     no_push : BOOLEAN,
     remote  : {NotGiven, "upstream"},
     branch  : {NotGiven, "gh-pages"},
     dry_run : BOOLEAN]

\* args before parse_args() has run
NoArgs == parse_args([message |-> NotGiven, all |-> FALSE, no_push |-> FALSE,
                      remote |-> NotGiven, branch |-> NotGiven, dry_run |-> FALSE])

(* ---------------------------- commands --------------------------------- *)

RevParseCmd == <<"git", "rev-parse", "--is-inside-work-tree">>

AddCmd(a) == IF a.all THEN <<"git", "add", "-A">> ELSE <<"git", "add">> \o FILES

DiffCmd == <<"git", "diff", "--cached", "--name-only">>

CommitCmd(a) == <<"git", "commit", "-m", a.message>>

GetUrlCmd == <<"git", "remote", "get-url", "origin">>

ssh_url_https == "https://github.com/" \o REPO_OWNER \o "/" \o REPO_NAME \o ".git"

ssh_url == "git@github.com:" \o REPO_OWNER \o "/" \o REPO_NAME \o ".git"

RemoteAddCmd == <<"git", "remote", "add", "origin", ssh_url>>

PushCmd(a) == <<"git", "push", a.remote, a.branch>>

(* ------------------------------ Init ----------------------------------- *)

Init ==
    /\ pc = "Start"
    /\ argv \in Argvs
    /\ args = NoArgs
    /\ status = -1
    /\ log = <<>>
    /\ inRepo \in BOOLEAN
    /\ \E names \in SUBSET RemoteNames :
          remotes = [n \in names |-> OtherUrl]
    /\ modified \in {m \in SUBSET Range(WorkFiles) : Cardinality(m) <= MaxModified}
    /\ staged = {}

(* ----------------------------- main() ---------------------------------- *)

inside_git_repo_always(rc) == TRUE

\* line 48
inside_git_repo(rc) == rc = 0

\* lines 79-83: the repository check, then parse_args()
CheckRepo ==
    /\ pc = "Start"
    /\ \E rc \in {0} \cup FailCodes :
         /\ (rc = 0) <=> inRepo
         /\ IF inside_git_repo(rc)
            THEN /\ log' = Append(log, Exec("subprocess.run", RevParseCmd, rc, <<>>))
                 /\ args' = parse_args(argv)
                 /\ pc' = "Stage"
                 /\ status' = status
            ELSE /\ log' = log \o <<Exec("subprocess.run", RevParseCmd, rc, <<>>),
                                    Message("This directory is not a git repository.")>>
                 /\ pc' = "Failed"
                 /\ status' = 1
                 /\ args' = args
    /\ UNCHANGED <<argv, inRepo, remotes, modified, staged>>

\* the files git add stages
Added(a) == IF a.all THEN modified ELSE modified \cap Range(FILES)

\* lines 85-89
Stage ==
    /\ pc = "Stage"
    /\ \E rc \in {0} \cup FailCodes :
         /\ IF RunExits(TRUE, rc)
            THEN Fail(AddCmd(args), rc, <<>>)
            ELSE Return(AddCmd(args), rc, <<>>, <<>>, "Query")
         /\ IF rc = 0
            THEN /\ staged' = staged \cup Added(args)
                 /\ modified' = modified \ Added(args)
            ELSE UNCHANGED <<staged, modified>>
    /\ UNCHANGED <<argv, args, inRepo, remotes>>

ShouldCommitIgnoringEmpty(out, a) == ~a.dry_run

ShouldCommitIgnoringDryRun(out, a) == out # <<>>

\* lines 93-100: commit when something is staged and this is no dry run
ShouldCommit(out, a) == out # <<>> /\ ~a.dry_run

\* lines 93-98: the messages printed after the staged query
StagedMessages(out, a) ==
    IF out = <<>> THEN <<Message("No staged changes to commit.")>>
    ELSE <<Message("Staged files:")>>
         \o (IF a.dry_run THEN <<Message("Dry-run: would commit with message:")>>
             ELSE <<>>)

\* lines 91-98: the staged query and the branch on its output
QueryStaged ==
    /\ pc = "Query"
    /\ \E rc \in {0} \cup FailCodes :
         LET out == IF rc = 0 THEN ListOf(staged, WorkFiles) ELSE <<>>
         IN  IF RunExits(TRUE, rc)
             THEN Fail(DiffCmd, rc, out)
             ELSE Return(DiffCmd, rc, out, StagedMessages(out, args),
                         IF ShouldCommit(out, args) THEN "Commit" ELSE "Ensure")
    /\ UNCHANGED <<argv, args, inRepo, remotes, modified, staged>>

\* line 100
Commit ==
    /\ pc = "Commit"
    /\ \E rc \in {0} \cup FailCodes :
         /\ IF RunExits(TRUE, rc)
            THEN Fail(CommitCmd(args), rc, <<>>)
            ELSE Return(CommitCmd(args), rc, <<>>, <<>>, "Ensure")
         /\ staged' = IF rc = 0 THEN {} ELSE staged
    /\ UNCHANGED <<argv, args, inRepo, remotes, modified>>

ShouldPushOnlyAfterCommit(a) ==
    /\ ~a.no_push /\ ~a.dry_run
    /\ \E i \in 1..Len(log) : log[i].kind = "exec" /\ log[i].cmd[2] = "commit"

ShouldPushIgnoringNoPush(a) == ~a.dry_run

ShouldPushIgnoringDryRun(a) == ~a.no_push

\* lines 106-113: push unless --no-push or --dry-run
ShouldPush(a) == ~a.no_push /\ ~a.dry_run

\* lines 106-111: the messages printed on the way to the push
PushMessages(a) ==
    IF a.no_push THEN <<Message("--no-push set: skipping push step.")>>
    ELSE <<Message("Pushing to remote branch...")>>
         \o (IF a.dry_run THEN <<Message("Dry-run: would run push command")>> ELSE <<>>)

\* main() after ensure_origin() returned with log l: on to the push, or
\* off the end of main(), which ends the process with status 0
AfterEnsure(l) ==
    /\ log' = l \o PushMessages(args)
    /\ IF ShouldPush(args)
       THEN pc' = "Push" /\ status' = status
       ELSE pc' = "End" /\ status' = 0

\* lines 53-57 and 103: the remote query; an existing origin is reported
EnsureOrigin ==
    /\ pc = "Ensure"
    /\ \E rc \in {0} \cup FailCodes :
         /\ (rc = 0) <=> "origin" \in DOMAIN remotes
         /\ LET l == Append(log, Exec("subprocess.run", GetUrlCmd, rc, <<>>))
            IN  IF rc = 0
                THEN AfterEnsure(Append(l, Message("origin remote configured:")))
                ELSE /\ log' = Append(l, Message("No origin remote found. Adding origin ->"))
                     /\ pc' = "AddRemote"
                     /\ status' = status
    /\ UNCHANGED <<argv, args, inRepo, remotes, modified, staged>>

\* lines 59-63: origin is added with the SSH URL
AddRemote ==
    /\ pc = "AddRemote"
    /\ \E rc \in {0} \cup FailCodes :
         /\ IF RunExits(TRUE, rc)
            THEN Fail(RemoteAddCmd, rc, <<>>)
            ELSE AfterEnsure(log \o RunLog(RemoteAddCmd, rc, <<>>))
         /\ remotes' = IF rc = 0 THEN ("origin" :> ssh_url) @@ remotes ELSE remotes
    /\ UNCHANGED <<argv, args, inRepo, modified, staged>>

\* line 113; falling off main() ends the process with status 0
Push ==
    /\ pc = "Push"
    /\ \E rc \in {0} \cup FailCodes :
         /\ rc = 0 => args.remote \in DOMAIN remotes
         /\ IF RunExits(TRUE, rc)
            THEN Fail(PushCmd(args), rc, <<>>)
            ELSE /\ log' = log \o RunLog(PushCmd(args), rc, <<>>)
                 /\ pc' = "End"
                 /\ status' = 0
    /\ UNCHANGED <<argv, args, inRepo, remotes, modified, staged>>

Next ==
    \/ CheckRepo
    \/ Stage
    \/ QueryStaged
    \/ Commit
    \/ EnsureOrigin
    \/ AddRemote
    \/ Push

Spec == Init /\ [][Next]_vars

\* every call of main() is synchronous: a command that returns is followed
\* by the next statement, so a run does not stop before main() ends
FairSpec == Spec /\ WF_vars(Next)

(* ------------------- reading the log of a run -------------------------- *)

IsExec(e) == e.kind = "exec"

IsRevParse(e) == IsExec(e) /\ e.cmd = RevParseCmd

IsStage(e) == IsExec(e) /\ e.cmd[2] = "add"

IsDiff(e) == IsExec(e) /\ e.cmd = DiffCmd

IsCommit(e) == IsExec(e) /\ e.cmd[2] = "commit"

IsGetUrl(e) == IsExec(e) /\ e.cmd[2] = "remote" /\ e.cmd[3] = "get-url"

IsRemoteAdd(e) == IsExec(e) /\ e.cmd[2] = "remote" /\ e.cmd[3] = "add"

IsPush(e) == IsExec(e) /\ e.cmd[2] = "push"

\* the commands that change the repository or the hosting remote
IsMutating(e) == IsStage(e) \/ IsCommit(e) \/ IsRemoteAdd(e) \/ IsPush(e)

\* the commands whose failure ends the run: those main() starts through run()
IsChecked(e) == IsMutating(e) \/ IsDiff(e)

Terminated == pc \in {"End", "Failed"}

Execs == SelectSeq(log, IsExec)

Failures == SelectSeq(log, LAMBDA e : IsExec(e) /\ e.rc # 0)

CheckedFailures == SelectSeq(log, LAMBDA e : IsChecked(e) /\ e.rc # 0)

RepoCheckFailed == \E i \in 1..Len(log) : IsRevParse(log[i]) /\ log[i].rc # 0

RepoCheckPassed == \E i \in 1..Len(log) : IsRevParse(log[i]) /\ log[i].rc = 0

StagedEmpty == \E i \in 1..Len(log) : IsDiff(log[i]) /\ log[i].rc = 0 /\ log[i].out = <<>>

StagedNonEmpty == \E i \in 1..Len(log) : IsDiff(log[i]) /\ log[i].rc = 0 /\ log[i].out # <<>>

OriginAbsent == \E i \in 1..Len(log) : IsGetUrl(log[i]) /\ log[i].rc # 0

OriginFound == \E i \in 1..Len(log) : IsGetUrl(log[i]) /\ log[i].rc = 0

Ran(P(_)) == \E i \in 1..Len(log) : P(log[i])

(* ------------------------------ claims --------------------------------- *)

\* C1: whatever the flags, once the repository check has returned non-zero
\* the run has executed no stage, commit, remote add or push, and it has
\* ended with exit status 1.
C1_NotARepository ==
    RepoCheckFailed =>
        /\ ~Ran(IsMutating)
        /\ pc = "Failed"
        /\ status = 1

C1_Witness ==
    /\ RepoCheckFailed
    /\ Terminated
    /\ argv.all /\ argv.dry_run /\ ~argv.no_push /\ argv.remote = "upstream"

\* C2 as stated: a finished run has status 0 when no external command
\* exited non-zero, 1 when the repository check failed, and otherwise the
\* status of the first external command that exited non-zero.
C2_Original ==
    Terminated =>
        status = IF RepoCheckFailed THEN 1
                 ELSE IF Failures = <<>> THEN 0
                 ELSE Head(Failures).rc

\* C2 amended: a finished run has status 1 when the repository check
\* failed, otherwise the status of the first command among stage, staged
\* query, commit, remote add and push that exited non-zero, and 0 when none
\* of them did; a non-zero status of the remote query is no failure.
C2_ExitStatus ==
    Terminated =>
        status = IF RepoCheckFailed THEN 1
                 ELSE IF CheckedFailures = <<>> THEN 0
                 ELSE Head(CheckedFailures).rc

C2_Witness ==
    /\ pc = "Failed"
    /\ status = 128
    /\ Len(Failures) = 2
    /\ IsGetUrl(Failures[1]) /\ Failures[1].rc = 1
    /\ IsPush(Failures[2])

\* C3: when stage, commit, remote add or push has exited with a non-zero
\* status s, the run is in its Failed state with exit status s and no
\* external command was executed after the failing one.
C3_FatalFailure ==
    \A i \in 1..Len(log) :
        (IsMutating(log[i]) /\ log[i].rc # 0) =>
            /\ pc = "Failed"
            /\ status = log[i].rc
            /\ \A j \in (i+1)..Len(log) : ~IsExec(log[j])

C3_Witness ==
    /\ pc = "Failed"
    /\ status = 128
    /\ \E i \in 1..Len(log) : IsPush(log[i]) /\ log[i].rc = 128

\* C4: when the staged query has returned an empty list, no commit is ever
\* executed, and the run is at the ensure-remote step or has passed it by
\* executing the remote query.
C4_NothingToCommit ==
    StagedEmpty =>
        /\ ~Ran(IsCommit)
        /\ pc # "Commit"
        /\ pc = "Ensure" \/ Ran(IsGetUrl)

C4_Witness ==
    /\ StagedEmpty
    /\ ~argv.dry_run
    /\ pc = "End"
    /\ Ran(IsPush)

\* C5: with --dry-run no commit and no push is ever executed, while the
\* stage command is executed once the repository check has passed, and the
\* remote add is executed once the remote query has found no remote.
C5_DryRun ==
    argv.dry_run =>
        /\ ~Ran(IsCommit)
        /\ ~Ran(IsPush)
        /\ RepoCheckPassed => (pc = "Stage" \/ Ran(IsStage))
        /\ OriginAbsent => (pc = "AddRemote" \/ Ran(IsRemoteAdd))

C5_Witness ==
    /\ argv.dry_run
    /\ ~argv.no_push
    /\ StagedNonEmpty
    /\ Ran(IsRemoteAdd)
    /\ pc = "End"

\* C6: whatever --remote names, when a remote of that name exists no step
\* of the run changes the remotes or executes a remote add.
C6_ConfiguredRemoteExists ==
    [][(RepoCheckPassed /\ args.remote \in DOMAIN remotes) =>
           (/\ remotes' = remotes
            /\ \A i \in (Len(log)+1)..Len(log') : ~IsRemoteAdd(log'[i]))]_vars

\* C7: with --no-push no push is ever executed, and once the repository
\* check, the stage, the staged query, the commit (if any) and the
\* ensure-remote step have succeeded the run has ended with status 0.
C7_NoPush ==
    argv.no_push =>
        /\ ~Ran(IsPush)
        /\ pc # "Push"
        /\ (/\ RepoCheckPassed
            /\ CheckedFailures = <<>>
            /\ OriginFound \/ Ran(IsRemoteAdd))
           => (pc = "End" /\ status = 0)

C7_Witness ==
    /\ argv.no_push
    /\ ~argv.dry_run
    /\ Ran(IsCommit)
    /\ Ran(IsRemoteAdd)
    /\ pc = "End"

Rank(e) ==
    CASE IsRevParse(e)  -> 1
      [] IsStage(e)     -> 2
      [] IsDiff(e)      -> 3
      [] IsCommit(e)    -> 4
      [] IsGetUrl(e)    -> 5
      [] IsRemoteAdd(e) -> 6
      [] IsPush(e)      -> 7

\* the place of a position of main() in the workflow
PcRank(p) ==
    CASE p = "Start"     -> 1
      [] p = "Stage"     -> 2
      [] p = "Query"     -> 3
      [] p = "Commit"    -> 4
      [] p = "Ensure"    -> 5
      [] p = "AddRemote" -> 6
      [] p = "Push"      -> 7
      [] p = "End"       -> 8
      [] p = "Failed"    -> 8

\* C9: the commands of a run are executed in workflow order, each at most
\* once, and main() is past every command it has executed: no step is
\* retried or entered again.
C9_LinearOrder ==
    /\ \A i, j \in 1..Len(Execs) : i < j => Rank(Execs[i]) < Rank(Execs[j])
    /\ \A i \in 1..Len(Execs) : Rank(Execs[i]) < PcRank(pc)

C9_Witness ==
    /\ pc = "End"
    /\ Len(Execs) = 5
    /\ IsPush(Execs[5])
    /\ ~Ran(IsCommit)

\* C10: a run without flags that found staged files and no origin and has
\* returned from main() executed exactly: repository check, stage of the
\* default list, staged query, commit with the default message, remote
\* query, remote add of origin with the SSH URL, push to origin main; its
\* exit status is 0.
C10_ScenarioA ==
    (/\ argv = [message |-> NotGiven, all |-> FALSE, no_push |-> FALSE,
                remote |-> NotGiven, branch |-> NotGiven, dry_run |-> FALSE]
     /\ StagedNonEmpty
     /\ OriginAbsent
     /\ pc = "End")
    => /\ [i \in 1..Len(Execs) |-> Execs[i].cmd] =
            << <<"git", "rev-parse", "--is-inside-work-tree">>,
               <<"git", "add", "index.html", "ask_her_out.html", "schedule.html", "git.py">>,
               <<"git", "diff", "--cached", "--name-only">>,
               <<"git", "commit", "-m", "Prepare site for GitHub Pages">>,
               <<"git", "remote", "get-url", "origin">>,
               <<"git", "remote", "add", "origin", "git@github.com:Ravi-Chandra24/Ask-her-Out.git">>,
               <<"git", "push", "origin", "main">> >>
       /\ \A i \in 1..Len(Execs) : Execs[i].rc = 0 <=> ~IsGetUrl(Execs[i])
       /\ status = 0

C10_Witness ==
    /\ argv = [message |-> NotGiven, all |-> FALSE, no_push |-> FALSE,
               remote |-> NotGiven, branch |-> NotGiven, dry_run |-> FALSE]
    /\ pc = "End"
    /\ Cardinality(DOMAIN remotes) = 1
    /\ staged = {}
    /\ modified = {}
    /\ Len(Execs) = 7

\* C11: with --all and neither --no-push nor --dry-run, a run whose staged
\* query returned an empty list executes no commit, goes on to the remote
\* query, goes on to the push once the remote is found or added, and has
\* ended with status 0 once the push has succeeded.
C11_ScenarioB ==
    (argv.all /\ ~argv.no_push /\ ~argv.dry_run /\ StagedEmpty) =>
        /\ ~Ran(IsCommit)
        /\ pc = "Ensure" \/ Ran(IsGetUrl)
        /\ (OriginFound \/ \E i \in 1..Len(log) : IsRemoteAdd(log[i]) /\ log[i].rc = 0)
               => (pc = "Push" \/ Ran(IsPush))
        /\ (\E i \in 1..Len(log) : IsPush(log[i]) /\ log[i].rc = 0)
               => (pc = "End" /\ status = 0)

C11_Witness ==
    /\ argv.all /\ ~argv.no_push /\ ~argv.dry_run
    /\ StagedEmpty
    /\ modified = {}
    /\ \E i \in 1..Len(log) : IsPush(log[i]) /\ log[i].rc = 0
    /\ pc = "End"
    /\ status = 0

\* C12: the remote that is queried and, if absent, added is the remote
\* --remote names, so every push that is executed goes to a remote that
\* this run has found to exist or has added.
C12_PushTargetEnsured ==
    /\ \A j \in 1..Len(log) :
           (IsGetUrl(log[j]) \/ IsRemoteAdd(log[j])) => log[j].cmd[4] = args.remote
    /\ \A i \in 1..Len(log) :
           IsPush(log[i]) =>
               \E j \in 1..(i-1) :
                   /\ IsGetUrl(log[j]) \/ IsRemoteAdd(log[j])
                   /\ log[j].rc = 0
                   /\ log[j].cmd[4] = log[i].cmd[3]

\* what has to hold for the commit to be executed
CommitDue ==
    /\ RepoCheckPassed
    /\ \E i \in 1..Len(log) : IsStage(log[i]) /\ log[i].rc = 0
    /\ StagedNonEmpty
    /\ ~argv.dry_run

\* C13: a commit is executed exactly when the repository check passed, the
\* stage succeeded, the staged query succeeded with a non-empty result and
\* --dry-run is not set: it has been executed only then, and it is then the
\* next command or has been executed; a staged query that exits with a
\* non-zero status s ends the run with status s, with no commit, remote
\* query, remote add or push.
C13_CommitIff ==
    /\ Ran(IsCommit) => CommitDue
    /\ CommitDue => (pc = "Commit" \/ Ran(IsCommit))
    /\ Terminated => (Ran(IsCommit) <=> CommitDue)
    /\ \A i \in 1..Len(log) :
           (IsDiff(log[i]) /\ log[i].rc # 0) =>
               /\ pc = "Failed"
               /\ status = log[i].rc
               /\ ~Ran(IsCommit) /\ ~Ran(IsGetUrl) /\ ~Ran(IsRemoteAdd) /\ ~Ran(IsPush)

C13_Witness ==
    /\ pc = "Failed"
    /\ status = 128
    /\ modified = {}
    /\ staged # {}
    /\ IsDiff(log[Len(log) - 1])
    /\ log[Len(log) - 1].rc = 128

\* C14: when every command returns, every run ends, returned from main()
\* with status 0 or exited with a non-zero status, and no run executes
\* more than seven external commands; every step moves main() forward and
\* an ended run takes no further step.
C14_Terminates ==
    /\ <>(\/ pc = "End" /\ status = 0
          \/ pc = "Failed" /\ status > 0)
    /\ [](Len(Execs) <= 7)
    /\ [][PcRank(pc') > PcRank(pc)]_vars
    /\ [](Terminated => ~ENABLED Next)

C14_Witness ==
    /\ pc = "Failed"
    /\ status = 1
    /\ Len(Execs) = 7
    /\ IsPush(Execs[7])
    /\ argv.branch = "gh-pages"

====
